---- MODULE Spec2Model ----
\* Post-processing pipeline of scripts/private/find_subject.py:
\* _filter_detections -> _rescale_back -> _NMS -> the summarising loop and the
\* emission of the result in _detect_people_yolo.
\*
\* Number representation (the code works on floats; the model is exact):
\*   - scores, confidences and thresholds are fixed-point, in units of
\*     1/ConfScale (0.55 is 55);
\*   - the class-id column of a detection row is held in the same fixed-point
\*     unit, because in the single-class layout it IS the score column;
\*   - model-space coordinates (cx, cy, w, h) are integers;
\*   - image-space coordinates are numerators over Den (x1 = n / Den); the image
\*     sizes drawn in Init are multiples of 2*ModelSize/Den, so that
\*     v / 640.0 * img_w and w / 2 are exact in that unit.
EXTENDS Integers, Sequences, FiniteSets, TLC

VARIABLES
    pc,              \* position of the invocation
    env,             \* what the file system / decoder answers (lines 181-228)
    args,            \* args.confidence, args.output_format, args.filter, args.debug
    classes,         \* the names read from the names file (line 209)
    filter_names,    \* line 211
    image,           \* [width, height] of the decoded image (line 230)
    raw,             \* the transposed output tensor handed to _filter_detections
    results,         \* the rows _filter_detections returned
    boxes,           \* _NMS: boxes (x1, y1, x2, y2, class column)
    conf_scores,     \* _NMS: conf_scores
    iou_thresh,      \* _NMS: iou_thresh
    order,           \* _NMS: order (indices still alive, ascending confidence)
    keep,            \* _NMS: keep
    keep_confidences,\* _NMS: keep_confidences
    rounds,          \* number of iterations of the while loop of _NMS so far
    pos,             \* index of the next element of zip(rescaled_results, confidences)
    acc,             \* _boxes, _x_min, _y_min, _w_max, _h_max, _total_detections, detections
    out,             \* what was printed (text lines or the json root), as tokens
    exit_code        \* status of the process, -1 while it runs

vars == <<pc, env, args, classes, filter_names, image, raw, results, boxes, conf_scores, iou_thresh,
          order, keep, keep_confidences, rounds, pos, acc, out, exit_code>>

nmsVars == <<boxes, conf_scores, iou_thresh, order, keep, keep_confidences, rounds>>

----------------------------------------------------------------------------
\* Bounds and program constants

MaxRows == 3          \* rows of the raw tensor
MaxBoxes == 4         \* candidates handed to _NMS when it is exercised alone

ModelSize == 640      \* the model's input side
ConfScale == 100      \* fixed-point unit of scores: two decimals
DefaultIou == 55      \* iou_thresh = 0.55
Inf == 1000000        \* float('inf')

Den == (2 * ModelSize) \div 160

Min2(a, b) == IF a <= b THEN a ELSE b
Max2(a, b) == IF a >= b THEN a ELSE b

\* int(v) of the real v = n / d (d > 0): truncation toward zero
Trunc(n, d) == IF n >= 0 THEN n \div d ELSE -((-n) \div d)

\* Python's a // b for b > 0: floor division
FloorDiv(a, b) == a \div b

Last(s) == s[Len(s)]
Front(s) == SubSeq(s, 1, Len(s) - 1)

\* the set of elements of a sequence
Range(s) == {s[i] : i \in DOMAIN s}

----------------------------------------------------------------------------
\* _filter_detections (lines 57-83)

\* lines 61 and 80: the comparison that lets a row through (Passes), after two
\* variants of it with another comparison, kept to see that the properties
\* below depend on the comparison
PassesAtOrAbove(confidence, thresh) == confidence >= thresh
PassesBelow(confidence, thresh) == confidence < thresh
Passes(confidence, thresh) == confidence > thresh

\* the class scores of a multi-class row: detection[4:]
Scores(detection) == SubSeq(detection, 5, Len(detection))

\* detection[4:].max()
MaxScore(detection) ==
    CHOOSE m \in Range(Scores(detection)) : \A v \in Range(Scores(detection)) : v <= m

\* detection[4:].argmax(): the first (0-based) index holding the maximum
\* (Argmax), after a variant that takes the last such index
ArgmaxLast(detection) ==
    LET s == Scores(detection)
    IN  (CHOOSE i \in DOMAIN s :
            /\ s[i] = MaxScore(detection)
            /\ \A j \in DOMAIN s : s[j] = MaxScore(detection) => j <= i) - 1
Argmax(detection) ==
    LET s == Scores(detection)
    IN  (CHOOSE i \in DOMAIN s :
            /\ s[i] = MaxScore(detection)
            /\ \A j \in DOMAIN s : s[j] = MaxScore(detection) => i <= j) - 1

\* line 73: np.append(detection[:4], [class_id, confidence_score]); every
\* element of the array is a float, the class id is held in the score unit
NewDetection(detection) ==
    SubSeq(detection, 1, 4) \o <<Argmax(detection) * ConfScale, MaxScore(detection)>>

\* The value of _filter_detections: raised is TRUE when results[0] (line 59)
\* raises IndexError, which is what indexing a tensor of zero rows does.
FilterDetections(rs, thresh) ==
    IF Len(rs) = 0
    THEN [raised |-> TRUE, rows |-> <<>>]
    ELSE IF Len(rs[1]) = 5
    THEN LET Considerable(d) == Passes(d[5], thresh)
         IN  [raised |-> FALSE, rows |-> SelectSeq(rs, Considerable)]
    ELSE LET A == [i \in DOMAIN rs |-> NewDetection(rs[i])]
             Considerable(d) == Passes(d[Len(d)], thresh)
         IN  [raised |-> FALSE, rows |-> SelectSeq(A, Considerable)]

\* the confidence of a raw row: its single score, or its maximum class score
RowConfidence(detection) ==
    IF Len(detection) = 5 THEN detection[5] ELSE MaxScore(detection)

----------------------------------------------------------------------------
\* _rescale_back (lines 143-158), up to the call of _NMS

\* v / 640.0 * dim, as a numerator over Den
ScaleBack(v, dim) == (v * dim * Den) \div ModelSize

\* lines 146-156: one row (cx, cy, w, h, class column, ..., confidence) to
\* (x1, y1, x2, y2, class column) (RescaleRow), after a variant that uses the
\* factor of the x axis on both axes
RescaleRowOneFactor(r, img_w, img_h) ==
    LET cx == ScaleBack(r[1], img_w)
        cy == ScaleBack(r[2], img_w)
        w  == ScaleBack(r[3], img_w)
        h  == ScaleBack(r[4], img_w)
    IN  <<cx - w \div 2, cy - h \div 2, cx + w \div 2, cy + h \div 2, r[5]>>
RescaleRow(r, img_w, img_h) ==
    LET cx == ScaleBack(r[1], img_w)
        cy == ScaleBack(r[2], img_h)
        w  == ScaleBack(r[3], img_w)
        h  == ScaleBack(r[4], img_h)
    IN  <<cx - w \div 2, cy - h \div 2, cx + w \div 2, cy + h \div 2, r[5]>>

\* lines 146-156 on every row (RescaledBoxes), after a variant that leaves the
\* boxes in the model's 640 x 640 space
ModelSpaceBoxes(rs, img_w, img_h) ==
    [i \in DOMAIN rs |-> RescaleRow(rs[i], ModelSize, ModelSize)]
RescaledBoxes(rs, img_w, img_h) == [i \in DOMAIN rs |-> RescaleRow(rs[i], img_w, img_h)]

\* results[:, -1]
Confidences(rs) == [i \in DOMAIN rs |-> rs[i][Len(rs[i])]]

----------------------------------------------------------------------------
\* _NMS (lines 85-140)

\* line 93
Area(b) == (b[3] - b[1]) * (b[4] - b[2])

\* lines 117-125, A the popped box and b a remaining candidate
Intersection(A, b) ==
    Max2(Min2(A[3], b[3]) - Max2(A[1], b[1]), 0)
        * Max2(Min2(A[4], b[4]) - Max2(A[2], b[2]), 0)

\* lines 128-129 (Union), after a variant that takes the popped box's area twice
UnionPoppedTwice(A, b) == Area(A) + Area(A) - Intersection(A, b)
Union(A, b) == Area(A) + Area(b) - Intersection(A, b)

\* line 131: intersection / union, kept as the pair <<numerator, denominator>>;
\* a zero denominator is numpy's nan (0/0) or inf (n/0)
IoU(A, b) == <<Intersection(A, b), Union(A, b)>>

\* line 133: iou < iou_thresh on floats; nan and inf compare False (Below),
\* after a variant with the comparison reversed
Above(iou, thresh) ==
    IF iou[2] = 0 THEN FALSE
    ELSE IF iou[2] > 0 THEN iou[1] * ConfScale > thresh * iou[2]
    ELSE iou[1] * ConfScale < thresh * iou[2]
Below(iou, thresh) ==
    IF iou[2] = 0 THEN FALSE
    ELSE IF iou[2] > 0 THEN iou[1] * ConfScale < thresh * iou[2]
    ELSE iou[1] * ConfScale > thresh * iou[2]

\* line 95: conf_scores.argsort(). The default kind is not a stable sort, so
\* equal confidences may come out in any relative order.
RECURSIVE AscendingOrders(_, _)
AscendingOrders(S, conf) ==
    IF S = {}
    THEN {<<>>}
    ELSE UNION {{<<i>> \o o : o \in AscendingOrders(S \ {i}, conf)} :
                    i \in {m \in S : \A j \in S : conf[m] <= conf[j]}}
\* the outcomes of argsort (ArgsortOutcomes), after a variant that sorts
\* descending
ArgsortDescending(conf) ==
    {[i \in DOMAIN o |-> o[Len(o) + 1 - i]] : o \in AscendingOrders(DOMAIN conf, conf)}
ArgsortOutcomes(conf) == AscendingOrders(DOMAIN conf, conf)

\* lines 105-135 of one iteration: what is left of order after popping its
\* last index and dropping the candidates that overlap the popped box
\* (Remaining), after a variant that leaves the order as it was and one that
\* drops only candidates of the popped box's class
RemainingPutsBack(ord, bx, thresh) == ord
RemainingOtherClasses(ord, bx, thresh) ==
    LET idx == Last(ord)
        Retained(j) == Below(IoU(bx[idx], bx[j]), thresh) \/ bx[idx][5] # bx[j][5]
    IN  SelectSeq(Front(ord), Retained)
Remaining(ord, bx, thresh) ==
    LET idx == Last(ord)
        Retained(j) == Below(IoU(bx[idx], bx[j]), thresh)
    IN  SelectSeq(Front(ord), Retained)

\* the whole loop (lines 100-140) from a given order
RECURSIVE NMSFrom(_, _, _, _)
NMSFrom(ord, bx, conf, thresh) ==
    IF Len(ord) = 0
    THEN [keep |-> <<>>, keep_confidences |-> <<>>]
    ELSE LET rest == NMSFrom(Remaining(ord, bx, thresh), bx, conf, thresh)
         IN  [keep |-> <<bx[Last(ord)]>> \o rest.keep,
              keep_confidences |-> <<conf[Last(ord)]>> \o rest.keep_confidences]

----------------------------------------------------------------------------
\* The summarising loop of _detect_people_yolo (lines 264-320)

\* a printed or serialised value: a number, or text that was printed verbatim
Num(n) == [lit |-> "", v |-> n]
Lit(str) == [lit |-> str, v |-> 0]

\* lines 264-271
EmptyAcc ==
    [boxes |-> <<>>, confidences |-> <<>>, class_ids |-> <<>>, total_detections |-> 0,
     x_min |-> Inf, y_min |-> Inf, w_max |-> 0, h_max |-> 0, detections |-> <<>>,
     diagnostics |-> <<>>, exception |-> ""]

\* line 278: int(cls_id) of the class column (ClassId), after a variant that
\* is always class 0
ClassIdZero(res) == 0
ClassId(res) == Trunc(res[5], ConfScale)

\* line 281 (InCatalog), after a variant without the upper bound
InCatalogNoUpperBound(cls_id, cls) == ~(cls_id < 0)
InCatalog(cls_id, cls) == ~(cls_id < 0 \/ cls_id >= Len(cls))

\* line 284: classes[cls_id] on a Python list raises IndexError outside
\* -len .. len - 1 and counts a negative index from the end
LookupRaises(cls_id, cls) == cls_id >= Len(cls) \/ cls_id < -Len(cls)
ClassName(cls_id, cls) ==
    IF cls_id >= 0 THEN cls[cls_id + 1] ELSE cls[Len(cls) + cls_id + 1]

\* lines 284-286 (InFilter), after a variant that lets every name through
InFilterAnyName(cls_id, cls, names) == TRUE
InFilter(cls_id, cls, names) == ClassName(cls_id, cls) \in Range(names)

\* lines 291-292: the line printed per candidate in debug mode (DebugPrint),
\* after a variant in which the debug branch also counts the candidate
DebugPrintCounting(a, conf, thresh, name, debug) ==
    IF debug
    THEN [a EXCEPT !.diagnostics = Append(@, <<conf, thresh, name>>),
                   !.total_detections = @ + 1]
    ELSE a
DebugPrint(a, conf, thresh, name, debug) ==
    IF debug THEN [a EXCEPT !.diagnostics = Append(@, <<conf, thresh, name>>)] ELSE a

\* line 297: int(x1), int(y1), int(x2), int(y2) (IntBox), after a variant
\* that takes the floor
IntBoxFloor(res) == <<res[1] \div Den, res[2] \div Den, res[3] \div Den, res[4] \div Den>>
IntBox(res) == <<Trunc(res[1], Den), Trunc(res[2], Den), Trunc(res[3], Den), Trunc(res[4], Den)>>

\* lines 303-306 (UpdateBox), after a variant that takes the maxima over x1, y1
UpdateBoxFromCorner(a, b) ==
    [a EXCEPT !.x_min = Min2(@, b[1]), !.y_min = Min2(@, b[2]),
              !.w_max = Max2(@, b[1]), !.h_max = Max2(@, b[2])]
UpdateBox(a, b) ==
    [a EXCEPT !.x_min = Min2(@, b[1]), !.y_min = Min2(@, b[2]),
              !.w_max = Max2(@, b[3]), !.h_max = Max2(@, b[4])]

\* lines 309-315; root["detections"] exists in the json format only
Record(a, b, conf, cls_id, cls, fmt) ==
    [a EXCEPT !.boxes = Append(@, b),
              !.confidences = Append(@, conf),
              !.class_ids = Append(@, cls_id),
              !.total_detections = @ + 1,
              !.detections = IF fmt = "json"
                             THEN Append(@, [box |-> b, confidence |-> conf,
                                             class |-> ClassName(cls_id, cls),
                                             class_id |-> cls_id])
                             ELSE @]

\* one iteration of the loop of line 276 on (res, conf); the drawing of
\* lines 318-320 changes the image only
LoopBody(a, res, conf, cls, names, thresh, fmt, debug) ==
    IF ~InCatalog(ClassId(res), cls) THEN a
    ELSE IF LookupRaises(ClassId(res), cls) THEN [a EXCEPT !.exception = "IndexError"]
    ELSE IF ~InFilter(ClassId(res), cls, names) THEN a
    ELSE LET d == DebugPrint(a, conf, thresh, ClassName(ClassId(res), cls), debug)
         IN  IF conf < thresh THEN d
             ELSE Record(UpdateBox(d, IntBox(res)), IntBox(res), conf, ClassId(res), cls, fmt)

\* the loop of line 276 over zip(ks, kc) from position p on
RECURSIVE RunLoop(_, _, _, _, _, _, _, _, _)
RunLoop(a, ks, kc, p, cls, names, thresh, fmt, debug) ==
    IF p > Len(ks) \/ a.exception # ""
    THEN a
    ELSE RunLoop(LoopBody(a, ks[p], kc[p], cls, names, thresh, fmt, debug),
                 ks, kc, p + 1, cls, names, thresh, fmt, debug)

----------------------------------------------------------------------------
\* What is printed (lines 180-242, 273-274, 322-360)

NoOutput ==
    [keys |-> {}, error |-> "", message |-> "", imagesize |-> <<>>, total_detections |-> <<>>,
     box |-> <<>>, center |-> <<>>, offset |-> <<>>, detections |-> <<>>, exception |-> "",
     debug_lines |-> <<>>]

\* lines 182-185, 191-194, 200-203, 223-226
ErrorOutput(fmt, what) ==
    IF fmt = "json"
    THEN [NoOutput EXCEPT !.keys = {"error"}, !.error = what]
    ELSE [NoOutput EXCEPT !.keys = {"Error"}, !.error = what]

\* lines 233-242: the root object, which is printed at the end
Root(img) ==
    [NoOutput EXCEPT
        !.keys = {"image", "imagesize", "total_detections", "box", "center", "offset",
                  "detections"},
        !.imagesize = <<Num(img.width), Num(img.height)>>,
        !.total_detections = <<Num(0)>>]

\* lines 213-215
DebugClasses(o, cls, debug) == IF debug THEN [o EXCEPT !.debug_lines = cls] ELSE o

\* lines 273-274
ImageSizeLine(o, img) ==
    [o EXCEPT !.keys = @ \cup {"imagesize"},
              !.imagesize = <<Num(img.width), Num(img.height)>>]

\* lines 323-333: the result when _boxes is empty. The text lines are raw
\* strings, printed as they are written.
NoDetectionOutput(o, img, fmt) ==
    IF fmt = "json"
    THEN [o EXCEPT !.keys = @ \cup {"error"},
                   !.error = "No people detected in the image.",
                   !.box = <<Num(0), Num(0), Num(img.width), Num(img.height)>>,
                   !.center = <<Num(FloorDiv(img.width, 2)), Num(FloorDiv(img.height, 2))>>,
                   !.offset = <<Num(0), Num(0)>>]
    ELSE [o EXCEPT !.keys = @ \cup {"box", "center", "offset"},
                   !.message = "No people detected in the image.",
                   !.box = <<Num(0), Num(0), Lit("${width}"), Lit("${height}")>>,
                   !.center = <<Lit("${width//2}"), Lit("${height//2}")>>,
                   !.offset = <<Num(0), Num(0)>>]

\* lines 338-339
Center(a) == <<FloorDiv(a.x_min + a.w_max, 2), FloorDiv(a.y_min + a.h_max, 2)>>

\* lines 350-353
Offset(a, img) ==
    <<Center(a)[1] - FloorDiv(img.width, 2), Center(a)[2] - FloorDiv(img.height, 2)>>

\* lines 341-360
ResultOutput(o, a, img, fmt) ==
    IF fmt = "json"
    THEN [o EXCEPT !.box = <<Num(a.x_min), Num(a.y_min), Num(a.w_max), Num(a.h_max)>>,
                   !.center = <<Num(Center(a)[1]), Num(Center(a)[2])>>,
                   !.total_detections = <<Num(a.total_detections)>>,
                   !.offset = <<Num(Offset(a, img)[1]), Num(Offset(a, img)[2])>>,
                   !.detections = a.detections]
    ELSE [o EXCEPT !.keys = @ \cup {"box", "center", "offset"},
                   !.box = <<Num(a.x_min), Num(a.y_min), Num(a.w_max), Num(a.h_max)>>,
                   !.center = <<Num(Center(a)[1]), Num(Center(a)[2])>>,
                   !.offset = <<Num(Offset(a, img)[1]), Num(Offset(a, img)[2])>>]

\* lines 232-377 on the kept detections ks with confidences kc: what has been
\* printed when the process ends, the accumulators and the exit status
Summarise(ks, kc, img, cls, names, a) ==
    LET fmt  == a.output_format
        o0   == DebugClasses(IF fmt = "json" THEN Root(img) ELSE ImageSizeLine(NoOutput, img),
                             cls, a.debug)
        last == RunLoop(EmptyAcc, ks, kc, 1, cls, names, a.confidence, fmt, a.debug)
    IN  IF last.exception # ""
        THEN [out |-> [(IF fmt = "json" THEN DebugClasses(NoOutput, cls, a.debug) ELSE o0)
                          EXCEPT !.exception = last.exception],
              acc |-> last, exit_code |-> 1]
        ELSE IF Len(last.boxes) = 0
        THEN [out |-> NoDetectionOutput(o0, img, fmt), acc |-> last, exit_code |-> 0]
        ELSE [out |-> ResultOutput(o0, last, img, fmt), acc |-> last, exit_code |-> 0]

----------------------------------------------------------------------------
\* Inputs

Reverse(q) == [i \in 1..Len(q) |-> q[Len(q) + 1 - i]]

\* the elements of q at the positions I, in the order of q
Pick(q, I) ==
    [k \in 1..Cardinality(I) |-> q[CHOOSE i \in I : Cardinality({j \in I : j < i}) = k - 1]]

\* the subsequences of q, and of q reversed, of at most n elements
SubSeqsUpTo(q, n) ==
    {Pick(q, I) : I \in {J \in SUBSET DOMAIN q : Cardinality(J) <= n}}
        \cup {Pick(Reverse(q), I) : I \in {J \in SUBSET DOMAIN q : Cardinality(J) <= n}}

\* rows of a single-class tensor: cx, cy, w, h, score
SingleRows ==
    <<<<320, 320, 64, 64, 90>>,
      <<17, 41, 63, 47, 60>>,
      <<500, 100, 40, 40, 100>>,
      <<-40, 200, 16, 16, 80>>>>

\* rows of a three-class tensor: cx, cy, w, h, score of class 0, 1, 2
MultiRows ==
    <<<<320, 320, 64, 64, 90, 10, 0>>,
      <<324, 322, 60, 60, 10, 95, 5>>,
      <<330, 320, 64, 64, 90, 90, 0>>,
      <<17, 41, 63, 47, 60, 60, 0>>,
      <<100, 500, 40, 40, 0, 5, 70>>,
      <<-41, 200, 15, 16, 80, 0, 0>>>>

Tensors == SubSeqsUpTo(SingleRows, MaxRows) \cup SubSeqsUpTo(MultiRows, MaxRows)

ConfThresholds == {60, 85, 150}

ImageSizes == {[width |-> 800, height |-> 480], [width |-> 480, height |-> 640]}

Catalogs == {<<"person", "car">>, <<"person", "car", "dog">>}

\* --filter: the names given, or nothing
Filters == {<<"person">>, <<>>}

ArgsSet ==
    [confidence : ConfThresholds, output_format : {"text", "json"},
     filter : Filters, debug : BOOLEAN]

\* candidates for _NMS exercised alone: corner boxes and confidences
NmsDets ==
    <<[box |-> <<10, 22, 50, 38>>, conf |-> 95],
      [box |-> <<10, 10, 50, 50>>, conf |-> 90],
      [box |-> <<12, 12, 48, 48>>, conf |-> 80],
      [box |-> <<10, 10, 50, 30>>, conf |-> 80],
      [box |-> <<10, 30, 50, 50>>, conf |-> 70],
      [box |-> <<0, 0, 10, 10>>, conf |-> 60],
      [box |-> <<100, 100, 110, 110>>, conf |-> 60],
      [box |-> <<20, 20, 20, 40>>, conf |-> 85],
      [box |-> <<30, 30, 30, 30>>, conf |-> 75]>>

IouThresholds == {-10, 0, 30, 50, 100}

----------------------------------------------------------------------------
\* The invocation: _detect_people_yolo

Init ==
    /\ pc = "start"
    /\ env = "unknown"
    /\ args \in ArgsSet
    /\ classes \in Catalogs
    /\ filter_names = <<>>
    /\ image \in ImageSizes
    /\ raw \in Tensors
    /\ results = <<>>
    /\ boxes = <<>>
    /\ conf_scores = <<>>
    /\ iou_thresh = DefaultIou
    /\ order = <<>>
    /\ keep = <<>>
    /\ keep_confidences = <<>>
    /\ rounds = 0
    /\ pos = 1
    /\ acc = EmptyAcc
    /\ out = NoOutput
    /\ exit_code = -1

\* lines 180-205: a missing image, model or names file
MissingFile ==
    /\ pc = "start"
    /\ \E e \in {"no_image", "no_model", "no_names"} :
        /\ env' = e
        /\ out' = ErrorOutput(args.output_format, e)
    /\ exit_code' = 1
    /\ pc' = "exit"
    /\ UNCHANGED <<args, classes, filter_names, image, raw, results, nmsVars, pos, acc>>

\* lines 207-228: the files exist, the image cannot be decoded
Undecodable ==
    /\ pc = "start"
    /\ env' = "undecodable"
    /\ filter_names' = IF Len(args.filter) > 0 THEN args.filter ELSE classes
    /\ out' = DebugClasses(ErrorOutput(args.output_format, "undecodable"), classes, args.debug)
    /\ exit_code' = 1
    /\ pc' = "exit"
    /\ UNCHANGED <<args, classes, image, raw, results, nmsVars, pos, acc>>

\* lines 207-258: names, image and inference; the root object of the json format
Load ==
    /\ pc = "start"
    /\ env' = "ok"
    /\ filter_names' = IF Len(args.filter) > 0 THEN args.filter ELSE classes
    /\ out' = DebugClasses(IF args.output_format = "json" THEN Root(image) ELSE NoOutput,
                            classes, args.debug)
    /\ pc' = "filter"
    /\ UNCHANGED <<args, classes, image, raw, results, nmsVars, pos, acc, exit_code>>

\* line 261; an exception nobody catches ends the process with status 1
Filter ==
    /\ pc = "filter"
    /\ LET r == FilterDetections(raw, args.confidence)
       IN  IF r.raised
           THEN /\ out' = [DebugClasses(NoOutput, classes, args.debug)
                              EXCEPT !.exception = "IndexError"]
                /\ exit_code' = 1
                /\ pc' = "exit"
                /\ UNCHANGED results
           ELSE /\ results' = r.rows
                /\ pc' = "rescale"
                /\ UNCHANGED <<out, exit_code>>
    /\ UNCHANGED <<env, args, classes, filter_names, image, raw, nmsVars, pos, acc>>

\* lines 262 and 143-157: nothing to rescale, or the boxes handed to _NMS with
\* its default iou_thresh
RescaleBack ==
    /\ pc = "rescale"
    /\ IF Len(results) = 0
       THEN /\ pc' = "summary"
            /\ UNCHANGED <<boxes, conf_scores>>
       ELSE /\ boxes' = RescaledBoxes(results, image.width, image.height)
            /\ conf_scores' = Confidences(results)
            /\ pc' = "nms_enter"
    /\ UNCHANGED <<env, args, classes, filter_names, image, raw, results, iou_thresh,
                   order, keep, keep_confidences, rounds, pos, acc, out, exit_code>>

\* lines 88-98
NMSEnter ==
    /\ pc \in {"nms_enter", "alone_enter"}
    /\ order' \in ArgsortOutcomes(conf_scores)
    /\ keep' = <<>>
    /\ keep_confidences' = <<>>
    /\ pc' = IF pc = "nms_enter" THEN "nms_loop" ELSE "alone_loop"
    /\ UNCHANGED <<env, args, classes, filter_names, image, raw, results, boxes,
                   conf_scores, iou_thresh, rounds, pos, acc, out, exit_code>>

\* lines 100-135: one iteration of the while loop
NMSRound ==
    /\ pc \in {"nms_loop", "alone_loop"}
    /\ Len(order) > 0
    /\ keep' = Append(keep, boxes[Last(order)])
    /\ keep_confidences' = Append(keep_confidences, conf_scores[Last(order)])
    /\ order' = Remaining(order, boxes, iou_thresh)
    /\ rounds' = rounds + 1
    /\ UNCHANGED <<pc, env, args, classes, filter_names, image, raw, results, boxes,
                   conf_scores, iou_thresh, pos, acc, out, exit_code>>

\* lines 140, 158 and 262: the loop is over, back in _detect_people_yolo
NMSReturn ==
    /\ pc = "nms_loop"
    /\ Len(order) = 0
    /\ pc' = "summary"
    /\ UNCHANGED <<env, args, classes, filter_names, image, raw, results, nmsVars,
                   pos, acc, out, exit_code>>

\* lines 264-274
BeginSummary ==
    /\ pc = "summary"
    /\ acc' = EmptyAcc
    /\ pos' = 1
    /\ out' = IF args.output_format = "text" THEN ImageSizeLine(out, image) ELSE out
    /\ pc' = "loop"
    /\ UNCHANGED <<env, args, classes, filter_names, image, raw, results, nmsVars, exit_code>>

\* lines 276-320: one element of zip(rescaled_results, confidences); an
\* exception nobody catches ends the process with status 1, and the root
\* object of the json format is then never printed
LoopStep ==
    /\ pc = "loop"
    /\ pos <= Len(keep)
    /\ acc' = LoopBody(acc, keep[pos], keep_confidences[pos], classes, filter_names,
                       args.confidence, args.output_format, args.debug)
    /\ pos' = pos + 1
    /\ IF acc'.exception # ""
       THEN /\ out' = [(IF args.output_format = "json"
                            THEN DebugClasses(NoOutput, classes, args.debug) ELSE out)
                          EXCEPT !.exception = acc'.exception]
            /\ exit_code' = 1
            /\ pc' = "exit"
       ELSE UNCHANGED <<pc, out, exit_code>>
    /\ UNCHANGED <<env, args, classes, filter_names, image, raw, results, nmsVars>>

\* lines 322-335
NoDetections ==
    /\ pc = "loop"
    /\ pos > Len(keep)
    /\ Len(acc.boxes) = 0
    /\ out' = NoDetectionOutput(out, image, args.output_format)
    /\ exit_code' = 0
    /\ pc' = "exit"
    /\ UNCHANGED <<env, args, classes, filter_names, image, raw, results, nmsVars, pos, acc>>

\* lines 337-377
EmitResult ==
    /\ pc = "loop"
    /\ pos > Len(keep)
    /\ Len(acc.boxes) > 0
    /\ out' = ResultOutput(out, acc, image, args.output_format)
    /\ exit_code' = 0
    /\ pc' = "exit"
    /\ UNCHANGED <<env, args, classes, filter_names, image, raw, results, nmsVars, pos, acc>>

Next ==
    \/ MissingFile
    \/ Undecodable
    \/ Load
    \/ Filter
    \/ RescaleBack
    \/ NMSEnter
    \/ NMSRound
    \/ NMSReturn
    \/ BeginSummary
    \/ LoopStep
    \/ NoDetections
    \/ EmitResult

Spec == Init /\ [][Next]_vars

----------------------------------------------------------------------------
\* _NMS exercised alone, on corner boxes and with any iou_thresh

InitNMS ==
    /\ pc = "alone_enter"
    /\ env = "ok"
    /\ args \in {a \in ArgsSet : a.confidence = 60 /\ a.output_format = "text"
                                 /\ a.filter = <<>> /\ ~a.debug}
    /\ classes = <<"person", "car">>
    /\ filter_names = <<>>
    /\ image = [width |-> 800, height |-> 480]
    /\ raw = <<>>
    /\ results = <<>>
    /\ \E ds \in SubSeqsUpTo(NmsDets, MaxBoxes) :
        /\ boxes = [i \in DOMAIN ds |-> ds[i].box]
        /\ conf_scores = [i \in DOMAIN ds |-> ds[i].conf]
    /\ iou_thresh \in IouThresholds
    /\ order = <<>>
    /\ keep = <<>>
    /\ keep_confidences = <<>>
    /\ rounds = 0
    /\ pos = 1
    /\ acc = EmptyAcc
    /\ out = NoOutput
    /\ exit_code = -1

\* line 140
NMSReturnAlone ==
    /\ pc = "alone_loop"
    /\ Len(order) = 0
    /\ pc' = "alone_done"
    /\ UNCHANGED <<env, args, classes, filter_names, image, raw, results, nmsVars,
                   pos, acc, out, exit_code>>

NextNMS ==
    \/ NMSEnter
    \/ NMSRound
    \/ NMSReturnAlone

SpecNMS == InitNMS /\ [][NextNMS]_vars

----------------------------------------------------------------------------
\* Properties of the invocation (checked under Spec)

\* the filter has returned normally
Filtered == env = "ok" /\ pc \notin {"start", "filter"} /\ out.exception = ""

\* row j of results is raw row i after the filter
IsRow(j, i) ==
    /\ SubSeq(results[j], 1, 4) = SubSeq(raw[i], 1, 4)
    /\ results[j][Len(results[j])] = RowConfidence(raw[i])

\* C1: a raw row enters the DetectionSet if and only if its confidence (the
\* single score, or the maximum class score) is strictly greater than
\* confidence_threshold, and every detection in the final per-detection list
\* has a confidence strictly greater than the threshold.
C1_FilterStrict ==
    Filtered =>
        /\ \A i \in DOMAIN raw :
            (\E j \in DOMAIN results : IsRow(j, i)) <=> RowConfidence(raw[i]) > args.confidence
        /\ \A k \in DOMAIN acc.confidences : acc.confidences[k] > args.confidence

C1_Witness ==
    /\ pc = "exit"
    /\ exit_code = 0
    /\ \E i \in DOMAIN raw :
        /\ RowConfidence(raw[i]) = args.confidence
        /\ ~\E j \in DOMAIN results : IsRow(j, i)
    /\ Len(acc.confidences) > 0

\* C2: a raw tensor of zero rows is not an error: the filter returns an empty
\* DetectionSet without raising, and the invocation ends with
\* total_detections = 0, box = (0, 0, width, height) and offset = (0, 0).
C2_EmptyInputIsNoError ==
    (env = "ok" /\ Len(raw) = 0 /\ pc \notin {"start", "filter"}) =>
        /\ out.exception = ""
        /\ pc = "exit" =>
            /\ exit_code = 0
            /\ acc.total_detections = 0
            /\ out.box = <<Num(0), Num(0), Num(image.width), Num(image.height)>>
            /\ out.offset = <<Num(0), Num(0)>>

\* C3: whenever zero detections survive, the emitted result has
\* box = (0, 0, width, height), center = (width // 2, height // 2),
\* offset = (0, 0) and total_detections = 0, width and height being numbers.
C3_EmptyResultPolicy ==
    (pc = "exit" /\ exit_code = 0 /\ Len(acc.boxes) = 0) =>
        /\ out.box = <<Num(0), Num(0), Num(image.width), Num(image.height)>>
        /\ out.center = <<Num(FloorDiv(image.width, 2)), Num(FloorDiv(image.height, 2))>>
        /\ out.offset = <<Num(0), Num(0)>>
        /\ acc.total_detections = 0
        /\ "total_detections" \in out.keys => out.total_detections = <<Num(0)>>

\* _filter_detections has just returned
JustFiltered == env = "ok" /\ pc = "rescale"

\* thresholds to compare the run's threshold with: every score in steps of 0.05
OtherThresholds == {c \in 0..ConfScale : c % 5 = 0}

\* C6: for thresholds c1 < c2 the candidates passed on with c2 are among the
\* candidates passed on with c1 (one of the two is the threshold of the run).
C6_ConfidenceMonotone ==
    JustFiltered =>
        \A c \in OtherThresholds :
            LET other == FilterDetections(raw, c).rows
            IN  /\ c > args.confidence =>
                    Range(other) \subseteq Range(results) /\ Len(other) <= Len(results)
                /\ c < args.confidence =>
                    Range(results) \subseteq Range(other) /\ Len(results) <= Len(other)

C6_Witness ==
    /\ JustFiltered
    /\ Len(results) > 0
    /\ \E c \in OtherThresholds :
        /\ c > args.confidence
        /\ Len(FilterDetections(raw, c).rows) > 0
        /\ Len(FilterDetections(raw, c).rows) < Len(results)

\* the result was emitted with at least one surviving detection
Emitted == pc = "exit" /\ exit_code = 0 /\ Len(acc.boxes) > 0

\* C8: in every result with at least one surviving detection, each detection
\* (x1, y1, x2, y2) of the per-detection list lies inside the reported box.
C8_AggregateContainment ==
    Emitted =>
        /\ \A t \in Range(out.box) : t.lit = ""
        /\ \A k \in DOMAIN acc.boxes :
            /\ out.box[1].v <= acc.boxes[k][1]
            /\ out.box[2].v <= acc.boxes[k][2]
            /\ acc.boxes[k][3] <= out.box[3].v
            /\ acc.boxes[k][4] <= out.box[4].v

C8_Witness ==
    /\ Emitted
    /\ \E k, l \in DOMAIN acc.boxes :
        acc.boxes[k][1] < acc.boxes[l][1] /\ acc.boxes[k][3] < acc.boxes[l][3]

\* _rescale_back has built the boxes it hands to _NMS
Rescaled == env = "ok" /\ pc \in {"nms_enter", "nms_loop"}

\* C10: independent per-axis factors width / 640 and height / 640:
\* x1 = (cx - w/2) * width / 640, x2 = (cx + w/2) * width / 640,
\* y1 = (cy - h/2) * height / 640, y2 = (cy + h/2) * height / 640; the
\* detection (320, 320, 64, 64) on an 800 x 480 image becomes
\* (360, 216, 440, 264).
C10_Rescale ==
    Rescaled =>
        \A i \in DOMAIN results :
            LET r == results[i]
                b == boxes[i]
            IN  /\ b[1] * 2 * ModelSize = (2 * r[1] - r[3]) * image.width * Den
                /\ b[3] * 2 * ModelSize = (2 * r[1] + r[3]) * image.width * Den
                /\ b[2] * 2 * ModelSize = (2 * r[2] - r[4]) * image.height * Den
                /\ b[4] * 2 * ModelSize = (2 * r[2] + r[4]) * image.height * Den
                /\ (SubSeq(r, 1, 4) = <<320, 320, 64, 64>>
                        /\ image = [width |-> 800, height |-> 480]) =>
                    SubSeq(b, 1, 4) = <<360 * Den, 216 * Den, 440 * Den, 264 * Den>>

C10_Witness ==
    /\ Rescaled
    /\ image = [width |-> 800, height |-> 480]
    /\ \E i \in DOMAIN results :
        /\ SubSeq(results[i], 1, 4) = <<320, 320, 64, 64>>
        /\ SubSeq(boxes[i], 1, 4) = <<360 * Den, 216 * Den, 440 * Den, 264 * Den>>

SetMin(S) == CHOOSE m \in S : \A x \in S : m <= x
SetMax(S) == CHOOSE m \in S : \A x \in S : x <= m

\* coordinate c of the detections of the per-detection list
Coordinates(bs, c) == {bs[k][c] : k \in DOMAIN bs}

\* C11: with at least one surviving detection the reported box is
\* (min x1, min y1, max x2, max y2) over the surviving detections, whatever
\* the integer coordinates are, x2 or y2 negative included.
C11_UnionBox ==
    Emitted =>
        out.box = <<Num(SetMin(Coordinates(acc.boxes, 1))),
                    Num(SetMin(Coordinates(acc.boxes, 2))),
                    Num(SetMax(Coordinates(acc.boxes, 3))),
                    Num(SetMax(Coordinates(acc.boxes, 4)))>>

\* C12: center = floor((x_min + x_max) / 2, (y_min + y_max) / 2) of the
\* reported box, offset = center - (width // 2, height // 2), and with a
\* single surviving detection the center is that detection's own box center.
C12_CenterOffset ==
    Emitted =>
        /\ out.center = <<Num(FloorDiv(out.box[1].v + out.box[3].v, 2)),
                          Num(FloorDiv(out.box[2].v + out.box[4].v, 2))>>
        /\ out.offset = <<Num(out.center[1].v - FloorDiv(image.width, 2)),
                          Num(out.center[2].v - FloorDiv(image.height, 2))>>
        /\ Len(acc.boxes) = 1 =>
            out.center = <<Num(FloorDiv(acc.boxes[1][1] + acc.boxes[1][3], 2)),
                           Num(FloorDiv(acc.boxes[1][2] + acc.boxes[1][4], 2))>>

\* the run went through the filter on a tensor with rows and is over
Finished == pc = "exit" /\ env = "ok" /\ Len(raw) > 0

\* the class id of kept detection k is inside the catalog
KeptInCatalog(k) == 0 <= ClassId(keep[k]) /\ ClassId(keep[k]) < Len(classes)

\* kept detection k is inside the catalog and its class name is one of the
\* names of the class filter
Reportable(k) ==
    /\ KeptInCatalog(k)
    /\ \E n \in DOMAIN filter_names : filter_names[n] = classes[ClassId(keep[k]) + 1]

\* the integer boxes of the reportable kept detections, in the order of keep
ReportableBoxes ==
    LET I == {k \in DOMAIN keep : Reportable(k)}
        q == Pick(keep, I)
    IN  [i \in DOMAIN q |-> IntBox(q[i])]

\* C13: the per-detection list and the aggregate box are built from exactly
\* the kept detections whose class id is inside the catalog and whose class
\* name is in the class filter; the others are dropped without raising, and
\* total_detections is the length of the per-detection list in every emitted
\* result. (The aggregate takes its minima over x1, y1 of those detections
\* and its maxima over 0 and their x2, y2.)
C13_ClassFilterAndCount ==
    Finished =>
        /\ exit_code = 0
        /\ out.exception = ""
        /\ acc.boxes = ReportableBoxes
        /\ acc.total_detections = Len(acc.boxes)
        /\ args.output_format = "json" =>
            /\ [i \in DOMAIN out.detections |-> out.detections[i].box] = ReportableBoxes
            /\ out.total_detections = <<Num(Len(out.detections))>>
        /\ Len(ReportableBoxes) > 0 =>
            out.box = <<Num(SetMin(Coordinates(ReportableBoxes, 1))),
                        Num(SetMin(Coordinates(ReportableBoxes, 2))),
                        Num(SetMax(Coordinates(ReportableBoxes, 3) \cup {0})),
                        Num(SetMax(Coordinates(ReportableBoxes, 4) \cup {0}))>>

C13_Witness ==
    /\ Finished
    /\ args.output_format = "json"
    /\ Len(out.detections) = 2
    /\ \E k \in DOMAIN keep : KeptInCatalog(k) /\ ~Reportable(k)

\* C14: a kept detection whose class id is negative or at least the number
\* of catalog entries is dropped from the output and the aggregate, the run
\* does not abort, and the other detections of the invocation are reported.
C14_CatalogMismatchDropped ==
    (Finished /\ \E k \in DOMAIN keep : ~KeptInCatalog(k)) =>
        /\ exit_code = 0
        /\ out.exception = ""
        /\ Len(acc.boxes) = Cardinality({k \in DOMAIN keep : Reportable(k)})
        /\ \A k \in DOMAIN keep :
            Reportable(k) => \E i \in DOMAIN acc.boxes : acc.boxes[i] = IntBox(keep[k])
        /\ \A i \in DOMAIN acc.boxes :
            \E k \in DOMAIN keep : KeptInCatalog(k) /\ acc.boxes[i] = IntBox(keep[k])
        /\ \A i \in DOMAIN out.detections :
            0 <= out.detections[i].class_id /\ out.detections[i].class_id < Len(classes)

C14_Witness ==
    /\ Finished
    /\ exit_code = 0
    /\ args.output_format = "json"
    /\ \E k \in DOMAIN keep : ClassId(keep[k]) >= Len(classes)
    /\ Len(out.detections) = 2

\* the filter has not acted yet, or the run is over
FilterNotPassed == pc \in {"start", "filter", "exit"}

\* the run is over and no result was produced, neither a detection result
\* nor the no-detection one
EndedWithoutResult == exit_code # 0 /\ out.box = <<>> /\ out.center = <<>> /\ out.offset = <<>>

\* C15: a confidence threshold outside [0, 1] ends the invocation in an
\* error before the filter looks at any row of the tensor, and no result is
\* produced. (iou_thresh is not an input of the invocation: line 157 calls
\* _NMS with its default.)
C15_ConfigurationErrorFailsFast ==
    (env = "ok" /\ (args.confidence < 0 \/ args.confidence > ConfScale)) =>
        /\ FilterNotPassed
        /\ pc = "exit" => EndedWithoutResult

\* C16: a tensor whose column count is neither 5 nor 4 + the catalog size
\* ends the invocation in an error and no result is produced.
C16_InputShapeError ==
    (env = "ok" /\ Len(raw) > 0 /\ Len(raw[1]) \notin {5, 4 + Len(classes)}) =>
        /\ FilterNotPassed
        /\ pc = "exit" => EndedWithoutResult

\* the result values of a finished run r: box, center, offset,
\* total_detections and the per-detection list
ResultValues(r) ==
    <<r.out.box, r.out.center, r.out.offset, r.out.total_detections, r.out.detections,
      r.acc.total_detections, r.acc.boxes, r.acc.confidences, r.acc.class_ids, r.exit_code>>

\* the arguments of this run with the debug flag the other way
OtherDebug == [args EXCEPT !.debug = ~args.debug]

\* C17: two runs on the same tensor, image size, catalog, thresholds and
\* class filter that differ only in the debug flag end with the same box,
\* center, offset, total_detections and per-detection list. (Filter, rescale
\* and _NMS take no debug argument; the run with the other flag is continued
\* from the same kept detections.)
C17_DebugNonInterference ==
    Finished =>
        LET this  == Summarise(keep, keep_confidences, image, classes, filter_names, args)
            other == Summarise(keep, keep_confidences, image, classes, filter_names, OtherDebug)
        IN  /\ this = [out |-> out, acc |-> acc, exit_code |-> exit_code]
            /\ ResultValues(other) = ResultValues(this)

C17_Witness ==
    /\ Finished
    /\ args.debug
    /\ Len(out.debug_lines) > 0
    /\ Len(acc.diagnostics) = 2
    /\ Len(acc.boxes) = 2
    /\ Summarise(keep, keep_confidences, image, classes, filter_names, OtherDebug).acc.diagnostics
           = <<>>

\* the run from the same kept detections in the format fmt
InFormat(fmt) ==
    Summarise(keep, keep_confidences, image, classes, filter_names,
              [args EXCEPT !.output_format = fmt]).out

\* C18: for every outcome, the zero-detection one included, the imagesize,
\* box, center and offset lines of the text form carry the same numeric
\* values as the keys of the json form produced from the same inputs.
C18_SameValuesBothForms ==
    (Finished /\ exit_code = 0) =>
        /\ out = InFormat(args.output_format)
        /\ InFormat("text").imagesize = InFormat("json").imagesize
        /\ InFormat("text").box = InFormat("json").box
        /\ InFormat("text").center = InFormat("json").center
        /\ InFormat("text").offset = InFormat("json").offset

\* C19: when no detection survives, the run ends with exit status 0, carries
\* the no-detection result (box 0,0,width,height, center width//2,height//2,
\* offset 0,0) and does not carry the error mark of the failures (the "error"
\* key of the json form, the "Error:" line of the text form).
C19_NoMatchIsNotFailure ==
    (Finished /\ Len(acc.boxes) = 0) =>
        /\ exit_code = 0
        /\ out.box = <<Num(0), Num(0), Num(image.width), Num(image.height)>>
        /\ out.center = <<Num(FloorDiv(image.width, 2)), Num(FloorDiv(image.height, 2))>>
        /\ out.offset = <<Num(0), Num(0)>>
        /\ "error" \notin out.keys
        /\ "Error" \notin out.keys
        /\ out.error = ""

\* k is the lowest 0-based class index at which raw row i has its greatest
\* class score
LowestMaxIndex(i, k) ==
    /\ \A c \in 5..Len(raw[i]) : raw[i][c] <= raw[i][5 + k]
    /\ \A c \in 5..(4 + k) : raw[i][c] < raw[i][5 + k]

\* C24: for every multi-class row, the class id is the index of the greatest
\* class score and the confidence is that score; when several classes share
\* it, the class id is the lowest such index.
C24_MultiClassResolution ==
    (JustFiltered /\ Len(raw) > 0 /\ Len(raw[1]) # 5) =>
        \A j \in DOMAIN results :
            \E i \in DOMAIN raw :
                \E k \in 0..(Len(raw[i]) - 5) :
                    /\ SubSeq(results[j], 1, 4) = SubSeq(raw[i], 1, 4)
                    /\ LowestMaxIndex(i, k)
                    /\ Len(results[j]) = 6
                    /\ results[j][5] = k * ConfScale
                    /\ results[j][6] = raw[i][5 + k]

C24_Witness ==
    /\ JustFiltered
    /\ Len(results) = 2
    /\ Len(raw[1]) > 5
    /\ \E i \in DOMAIN raw :
        /\ SubSeq(results[1], 1, 4) = SubSeq(raw[i], 1, 4)
        /\ raw[i][5] = raw[i][6]
        /\ LowestMaxIndex(i, 0)
    /\ results[2][5] > 0

\* the integer r is the real v / Den with its fractional part discarded:
\* floor for v >= 0, ceiling for v < 0
TruncatedFrom(r, v) ==
    IF v >= 0
    THEN r * Den <= v /\ v < (r + 1) * Den
    ELSE (r - 1) * Den < v /\ v <= r * Den

\* the kept detections that are reported, in the order of keep
ReportedKept == Pick(keep, {k \in DOMAIN keep : Reportable(k)})

\* C25: each reported x1, y1, x2, y2 is the rescaled coordinate with its
\* fractional part discarded (never rounded to nearest): floor(v) for a
\* positive v, ceil(v) for a negative v.
C25_TruncatedTowardZero ==
    Finished =>
        /\ Len(acc.boxes) = Len(ReportedKept)
        /\ \A i \in DOMAIN acc.boxes : \A c \in 1..4 :
                TruncatedFrom(acc.boxes[i][c], ReportedKept[i][c])
        /\ \A i \in DOMAIN out.detections :
                out.detections[i].box = acc.boxes[i]

C25_Witness ==
    /\ Finished
    /\ args.output_format = "json"
    /\ \E i \in DOMAIN out.detections :
        /\ ReportedKept[i][1] < 0
        /\ ReportedKept[i][1] % Den > Den \div 2
        /\ out.detections[i].box[1] * Den > ReportedKept[i][1]
    /\ \E i \in DOMAIN out.detections :
        /\ ReportedKept[i][1] > 0
        /\ ReportedKept[i][1] % Den >= Den \div 2
        /\ out.detections[i].box[1] * Den < ReportedKept[i][1]

\* _NMS is running inside _rescale_back
Suppressing == env = "ok" /\ pc \in {"nms_enter", "nms_loop"}

\* box b is row r as corners in the model's 640 x 640 space
ModelSpaceCorners(b, r) ==
    /\ 2 * b[1] = (2 * r[1] - r[3]) * Den
    /\ 2 * b[2] = (2 * r[2] - r[4]) * Den
    /\ 2 * b[3] = (2 * r[1] + r[3]) * Den
    /\ 2 * b[4] = (2 * r[2] + r[4]) * Den

\* box b is row r as corners rescaled to the image
ImageSpaceCorners(b, r) ==
    /\ b[1] * 2 * ModelSize = (2 * r[1] - r[3]) * image.width * Den
    /\ b[2] * 2 * ModelSize = (2 * r[2] - r[4]) * image.height * Den
    /\ b[3] * 2 * ModelSize = (2 * r[1] + r[3]) * image.width * Den
    /\ b[4] * 2 * ModelSize = (2 * r[2] + r[4]) * image.height * Den

SingleClass == env = "ok" /\ Len(raw) > 0 /\ Len(raw[1]) = 5

\* C30: in the single-class layout the class id used by the catalog check
\* and the class filter is the score column truncated to an integer: 0 for
\* every surviving detection with a score below 1, 1 for a score of exactly
\* 1; no class index is stored separately.
C30_SingleClassId ==
    SingleClass =>
        /\ \A j \in DOMAIN results : Len(results[j]) = 5
        /\ \A i \in DOMAIN boxes : boxes[i][5] = conf_scores[i]
        /\ \A k \in DOMAIN keep : keep[k][5] = keep_confidences[k]
        /\ \A i \in DOMAIN acc.class_ids :
            acc.class_ids[i] = (IF acc.confidences[i] < ConfScale THEN 0 ELSE 1)
        /\ \A i \in DOMAIN out.detections :
            /\ out.detections[i].class_id
                   = (IF out.detections[i].confidence < ConfScale THEN 0 ELSE 1)
            /\ out.detections[i].class = classes[out.detections[i].class_id + 1]
        /\ Finished =>
            Len(acc.boxes) = Cardinality({k \in DOMAIN keep :
                \E n \in DOMAIN filter_names :
                    filter_names[n]
                        = classes[(IF keep_confidences[k] < ConfScale THEN 0 ELSE 1) + 1]})

C30_Witness ==
    /\ SingleClass
    /\ Finished
    /\ args.output_format = "json"
    /\ \E i, j \in DOMAIN out.detections :
        /\ out.detections[i].confidence = ConfScale
        /\ out.detections[i].class_id = 1
        /\ out.detections[i].class = "car"
        /\ out.detections[j].confidence < ConfScale
        /\ out.detections[j].class_id = 0

----------------------------------------------------------------------------
\* Properties of _NMS (checked under SpecNMS)

\* the same detections, as multisets of (box, confidence)
SameDetections(k1, c1, k2, c2) ==
    /\ Len(k1) = Len(k2)
    /\ \A i \in DOMAIN k1 :
        Cardinality({j \in DOMAIN k1 : k1[j] = k1[i] /\ c1[j] = c1[i]})
            = Cardinality({j \in DOMAIN k2 : k2[j] = k1[i] /\ c2[j] = c1[i]})

\* C4: _NMS applied to its own kept output with the same iou_thresh returns
\* the same boxes and confidences, whatever order argsort gives to ties.
C4_Idempotent ==
    pc = "alone_done" =>
        \A o \in ArgsortOutcomes(keep_confidences) :
            LET again == NMSFrom(o, keep, keep_confidences, iou_thresh)
            IN  SameDetections(again.keep, again.keep_confidences, keep, keep_confidences)

C4_Witness ==
    /\ pc = "alone_done"
    /\ Len(keep) >= 2
    /\ Len(keep) < Len(boxes)
    /\ \E i, j \in DOMAIN keep : i # j /\ Intersection(keep[i], keep[j]) > 0

\* number of detections _NMS keeps from the order it starts with
KeptWith(thresh) == Len(NMSFrom(order, boxes, conf_scores, thresh).keep)

\* _NMS has sorted the candidates and not popped any yet
Sorted == pc = "alone_loop" /\ rounds = 0

\* C5: for thresholds t1 < t2 the number of detections kept with t2 is at
\* least the number kept with t1.
C5_IouMonotone ==
    Sorted => \A t1, t2 \in IouThresholds : t1 < t2 => KeptWith(t1) <= KeptWith(t2)

\* C5, amended: the same for DetectionSets of at most three candidates.
C5_IouMonotoneUpTo3 ==
    (Sorted /\ Len(boxes) <= 3) =>
        \A t1, t2 \in IouThresholds : t1 < t2 => KeptWith(t1) <= KeptWith(t2)

C5_Witness ==
    /\ Sorted
    /\ Len(boxes) = 3
    /\ \E t1, t2 \in IouThresholds : t1 < t2 /\ KeptWith(t1) < KeptWith(t2)

\* C7: the intersection-over-union of two boxes does not depend on which of
\* the two is the popped box and which the candidate.
C7_IouSymmetric ==
    pc \in {"alone_loop", "alone_done"} =>
        \A i, j \in DOMAIN boxes : IoU(boxes[i], boxes[j]) = IoU(boxes[j], boxes[i])

C7_Witness ==
    /\ pc = "alone_loop"
    /\ rounds >= 1
    /\ \E j \in Range(order) :
        /\ Intersection(keep[Len(keep)], boxes[j]) > 0
        /\ Area(keep[Len(keep)]) # Area(boxes[j])

\* exactly two candidates, and their boxes do not intersect (IoU = 0)
TwoDisjoint ==
    /\ Len(boxes) = 2
    /\ IoU(boxes[1], boxes[2])[1] = 0
    /\ IoU(boxes[1], boxes[2])[2] > 0

\* C9: two candidates with disjoint boxes are both kept for every
\* iou_threshold strictly less than 1, thresholds of 0 and below included.
C9_DisjointBothKept ==
    (pc = "alone_done" /\ TwoDisjoint /\ iou_thresh < ConfScale) => Len(keep) = 2

\* C9, amended: both are kept for every iou_threshold strictly between 0 and 1.
C9_DisjointBothKeptAboveZero ==
    (pc = "alone_done" /\ TwoDisjoint /\ 0 < iou_thresh /\ iou_thresh < ConfScale) =>
        /\ Len(keep) = 2
        /\ Range(keep) = Range(boxes)

C9_Witness ==
    /\ pc = "alone_done"
    /\ Range(boxes) = {<<0, 0, 10, 10>>, <<100, 100, 110, 110>>}
    /\ 0 < iou_thresh
    /\ iou_thresh < ConfScale
    /\ Len(keep) = 2

\* IoU(A, b) >= thresh, with the IoU of two boxes whose union is 0 taken as 0
IoUAtLeast(A, b, thresh) ==
    IF Union(A, b) = 0 THEN 0 >= thresh
    ELSE Intersection(A, b) * ConfScale >= thresh * Union(A, b)

\* C20: in each round, after box P is popped, a remaining candidate is
\* removed from the order if and only if its IoU with P is at least
\* iou_thresh, and is retained if it is less; (10,10,50,50) with confidence
\* 0.9 and (12,12,48,48) with 0.8 at iou_thresh 0.5 yield only the first.
C20_DiscardRule ==
    [][(pc = "alone_loop" /\ rounds' = rounds + 1) =>
          /\ \A j \in Range(Front(order)) :
                (j \notin Range(order'))
                    <=> IoUAtLeast(boxes[Last(order)], boxes[j], iou_thresh)
          /\ (boxes = <<<<10, 10, 50, 50>>, <<12, 12, 48, 48>>>> /\ conf_scores = <<90, 80>>
                /\ iou_thresh = 50) => (keep' = <<<<10, 10, 50, 50>>>> /\ order' = <<>>)]_vars

\* one iteration of the loop of _NMS is taken
Round == pc = "alone_loop" /\ rounds' = rounds + 1

\* C21: a box of zero area, when popped, discards no remaining candidate for
\* any iou_thresh > 0; also when the candidate has zero area too and the
\* union is 0, the candidate is retained for the next round.
C21_ZeroAreaDiscardsNothing ==
    [][(Round /\ Area(boxes[Last(order)]) = 0 /\ iou_thresh > 0) => order' = Front(order)]_vars

\* _NMS exercised alone has sorted its candidates
Sorting == pc \in {"alone_loop", "alone_done"}

\* C22: each round pops the candidate of highest confidence among those
\* remaining: the last index of the order holds the greatest remaining
\* confidence, nothing remaining is above what was kept, a candidate of
\* maximal confidence is the first kept element and the kept confidences
\* are non-increasing.
C22_SelectionOrder ==
    Sorting =>
        /\ \A j \in Range(order) : conf_scores[j] <= conf_scores[Last(order)]
        /\ \A j \in Range(order) : \A k \in DOMAIN keep_confidences :
                conf_scores[j] <= keep_confidences[k]
        /\ Len(keep) > 0 =>
            /\ \A i \in DOMAIN conf_scores : conf_scores[i] <= keep_confidences[1]
            /\ \E i \in DOMAIN boxes :
                boxes[i] = keep[1] /\ conf_scores[i] = keep_confidences[1]
        /\ \A k, l \in DOMAIN keep_confidences :
                k < l => keep_confidences[k] >= keep_confidences[l]

C22_Witness ==
    /\ pc = "alone_done"
    /\ Len(keep) = 3
    /\ keep_confidences[1] > keep_confidences[2]
    /\ keep_confidences[2] > keep_confidences[3]
    /\ conf_scores[1] < conf_scores[2]

\* the ascending order a stable sort gives: equal confidences stay in row order
StableOrder(conf) ==
    CHOOSE o \in ArgsortOutcomes(conf) :
        \A a, b \in DOMAIN o : (a < b /\ conf[o[a]] = conf[o[b]]) => o[a] < o[b]

\* C23: the indices are sorted ascending by confidence with a stable sort,
\* so candidates of equal confidence stay in their row order (the later row
\* is popped first) and the kept output is a function of the input alone.
C23_StableTieBreak ==
    /\ (pc = "alone_loop" /\ rounds = 0) => order = StableOrder(conf_scores)
    /\ pc = "alone_done" =>
        keep = NMSFrom(StableOrder(conf_scores), boxes, conf_scores, iou_thresh).keep

\* _NMS exercised alone has returned
Returned == pc = "alone_done"

\* the IoU of a and b is defined and strictly less than thresh
IoUStrictlyLess(a, b, thresh) ==
    /\ Union(a, b) > 0
    /\ Intersection(a, b) * ConfScale < thresh * Union(a, b)

\* candidate i is in the kept output
IsKept(i) ==
    \E k \in DOMAIN keep : keep[k] = boxes[i] /\ keep_confidences[k] = conf_scores[i]

\* C27: in the output of _NMS any two distinct kept boxes have an IoU
\* strictly less than iou_thresh, and every candidate that is not kept has an
\* IoU of at least iou_thresh, or an undefined one, with some kept box whose
\* confidence is at least its own.
C27_OutputInvariant ==
    Returned =>
        /\ \A k, l \in DOMAIN keep :
            k # l => IoUStrictlyLess(keep[k], keep[l], iou_thresh)
        /\ \A i \in DOMAIN boxes :
            ~IsKept(i) =>
                \E k \in DOMAIN keep :
                    /\ ~IoUStrictlyLess(keep[k], boxes[i], iou_thresh)
                    /\ keep_confidences[k] >= conf_scores[i]

C27_Witness ==
    /\ Returned
    /\ Len(keep) = 2
    /\ Len(boxes) = 4
    /\ \E i \in DOMAIN boxes : \E k \in DOMAIN keep :
        ~IsKept(i) /\ Union(keep[k], boxes[i]) = 0
    /\ \E i \in DOMAIN boxes : \E k \in DOMAIN keep :
        ~IsKept(i) /\ Intersection(keep[k], boxes[i]) > 0

----------------------------------------------------------------------------
\* _NMS inside the invocation (checked under Spec)

\* _NMS has returned to _detect_people_yolo
Suppressed == env = "ok" /\ pc \in {"summary", "loop", "exit"} /\ Len(results) > 0
                /\ out.exception = ""

\* row i of the rescaled boxes is in catalog and filter
CandidateReportable(i) ==
    /\ 0 <= ClassId(boxes[i]) /\ ClassId(boxes[i]) < Len(classes)
    /\ \E n \in DOMAIN filter_names : filter_names[n] = classes[ClassId(boxes[i]) + 1]

\* C28: suppression compares the four coordinates only and ignores the class
\* column: whatever their classes, two kept boxes have an IoU below
\* iou_thresh and a candidate that is not kept meets iou_thresh with a kept
\* box of at least its confidence; the catalog check and the class filter
\* are applied afterwards, to the kept set only.
C28_ClassAgnosticNMS ==
    Suppressed =>
        /\ \A k, l \in DOMAIN keep :
            k # l => IoUStrictlyLess(keep[k], keep[l], iou_thresh)
        /\ \A i \in DOMAIN boxes :
            ~IsKept(i) =>
                \E k \in DOMAIN keep :
                    /\ ~IoUStrictlyLess(keep[k], boxes[i], iou_thresh)
                    /\ keep_confidences[k] >= conf_scores[i]
        /\ pc = "summary" => acc = EmptyAcc
        /\ \A b \in Range(acc.boxes) : \E k \in DOMAIN keep : Reportable(k) /\ b = IntBox(keep[k])

\* a kept box of a class outside the filter has removed the only candidate
\* inside the filter, and the run reports that nothing was detected
C28_Witness ==
    /\ Suppressed
    /\ pc = "exit"
    /\ exit_code = 0
    /\ Len(acc.boxes) = 0
    /\ \E i \in DOMAIN boxes : \E k \in DOMAIN keep :
        /\ ~IsKept(i)
        /\ CandidateReportable(i)
        /\ ~Reportable(k)
        /\ ClassId(keep[k]) # ClassId(boxes[i])
        /\ ~IoUStrictlyLess(keep[k], boxes[i], iou_thresh)

----------------------------------------------------------------------------
\* More properties of _NMS (checked under SpecNMS)

\* C29: the loop of _NMS ends after at most n rounds on n candidates: each
\* round removes the popped candidate from the order and adds none, the loop
\* can always take its next step until the order is empty, and every
\* candidate ends up kept or discarded, once.
C29_TerminatesWithinN ==
    Sorting =>
        /\ rounds + Len(order) <= Len(boxes)
        /\ rounds = Len(keep)
        /\ \A a, b \in DOMAIN order : a # b => order[a] # order[b]
        /\ \A i \in Range(order) : ~IsKept(i)
        /\ Cardinality({i \in DOMAIN boxes : IsKept(i)}) = Len(keep)
        /\ pc = "alone_loop" => ENABLED NextNMS
        /\ pc = "alone_done" => order = <<>>

C29_Witness ==
    /\ pc = "alone_done"
    /\ Len(boxes) = 4
    /\ rounds = 4
    /\ iou_thresh = 50

====
